---- MODULE Spec2Model ----
(***************************************************************************)
(* Model of the deimos master server: the in-memory registry of            *)
(* src/unnamed/part_000 and the MySQL-backed registry with its cache layer *)
(* of src/app.js.                                                          *)
(*                                                                         *)
(* JavaScript strings that the code takes apart (port, maxplayers and      *)
(* players of a request body) are sequences of one-character strings;      *)
(* strings the code only copies (ip, name, map) are TLA+ strings.          *)
(***************************************************************************)
EXTENDS Integers, Sequences, FiniteSets, TLC

(***************************************************************************)
(* Bounds of the model                                                     *)
(***************************************************************************)
MaxTicks == 2
MaxPosts == 2
MaxGets == 2
MaxSweeps == 1
\* heartbeats sent while the cache is observed
MaxCachePosts == 1

(***************************************************************************)
(* config.json values read by the code                                     *)
(***************************************************************************)
max_idle_time == 1
expiration == 1

(***************************************************************************)
(* JavaScript values                                                       *)
(***************************************************************************)
\* undefined, as a field of a request body: no string of characters equals it
Undefined == <<"undefined">>

\* a JavaScript number is NaN or an integer
NaN == [nan |-> TRUE, val |-> 0]
Num(n) == [nan |-> FALSE, val |-> n]

Digits == {"0", "1", "2", "3", "4", "5", "6", "7", "8", "9"}

DigitVal(c) ==
  CASE c = "0" -> 0 [] c = "1" -> 1 [] c = "2" -> 2 [] c = "3" -> 3
    [] c = "4" -> 4 [] c = "5" -> 5 [] c = "6" -> 6 [] c = "7" -> 7
    [] c = "8" -> 8 [] c = "9" -> 9

IsSpace(c) == c = " "

RECURSIVE SkipSpaces(_)
SkipSpaces(s) ==
  IF s # << >> /\ IsSpace(Head(s)) THEN SkipSpaces(Tail(s)) ELSE s

\* the value of the longest prefix of digits of s, read after acc
RECURSIVE ParseDigits(_, _)
ParseDigits(s, acc) ==
  IF s # << >> /\ Head(s) \in Digits
    THEN ParseDigits(Tail(s), 10 * acc + DigitVal(Head(s)))
    ELSE acc

\* parseInt(x): leading blanks, an optional sign, then decimal digits;
\* NaN when no digit follows (parseInt(undefined) is NaN as well)
parseInt(x) ==
  IF x = Undefined THEN NaN
  ELSE LET t == SkipSpaces(x)
           neg == t # << >> /\ Head(t) = "-"
           u == IF t # << >> /\ Head(t) \in {"-", "+"} THEN Tail(t) ELSE t
       IN IF u = << >> \/ Head(u) \notin Digits THEN NaN
          ELSE IF neg THEN Num(0 - ParseDigits(u, 0)) ELSE Num(ParseDigits(u, 0))

\* a > b on JavaScript numbers: false as soon as one side is NaN
JsGt(a, b) == ~a.nan /\ ~b.nan /\ a.val > b.val

\* a === b on JavaScript numbers: NaN equals nothing
JsStrictEq(a, b) == ~a.nan /\ ~b.nan /\ a.val = b.val

\* typeof v === 'number': true of every result of parseInt, NaN included
IsNumber(v) == v.nan \in BOOLEAN

\* a number as '+' appends it to a string
NumStr(v) == IF v.nan THEN "NaN" ELSE ToString(v.val)

\* String.prototype.split(','): always at least one element
RECURSIVE SplitAcc(_, _, _)
SplitAcc(s, cur, out) ==
  IF s = << >> THEN Append(out, cur)
  ELSE IF Head(s) = "," THEN SplitAcc(Tail(s), << >>, Append(out, cur))
  ELSE SplitAcc(Tail(s), Append(cur, Head(s)), out)

split(s) == SplitAcc(s, << >>, << >>)

RECURSIVE TrimRight(_)
TrimRight(s) ==
  IF s # << >> /\ IsSpace(s[Len(s)]) THEN TrimRight(SubSeq(s, 1, Len(s) - 1))
  ELSE s

trim(s) == TrimRight(SkipSpaces(s))

\* players.split(',').map(trim)
cleanPlayers(p) == LET parts == split(p) IN [i \in 1..Len(parts) |-> trim(parts[i])]

\* Array.prototype.join(', ')
RECURSIVE join(_)
join(a) ==
  IF a = << >> THEN << >>
  ELSE IF Len(a) = 1 THEN a[1]
  ELSE a[1] \o <<",", " ">> \o join(Tail(a))

\* ip + ':' + port
serverKey(ip, port) == ip \o ":" \o NumStr(port)

(***************************************************************************)
(* Requests                                                                *)
(***************************************************************************)
IPs == {"10.0.0.1"}
PortInputs == {<<"1">>, <<"2">>, <<"0">>, <<"-", "1">>, <<"x">>}
NameInputs == {"A", "B"}
MapInputs == {"m"}
PlayersInputs == {Undefined, << >>, <<"a", ",", " ", "b">>}
MaxPlayersInputs == {<<"4">>, <<"0">>, <<"-", "1">>, <<"x">>}

\* a well-formed req.body of a POST /
BaseBody ==
  [port |-> <<"1">>, name |-> "A", map |-> "m",
   players |-> <<"a", ",", " ", "b">>, maxplayers |-> <<"4">>]

\* the number of fields in which two bodies differ
Distance(a, b) == Cardinality({f \in DOMAIN a : a[f] # b[f]})

\* the bodies sent: BaseBody and every body that differs from it in one field
Bodies ==
  {b \in [port : PortInputs, name : NameInputs, map : MapInputs,
          players : PlayersInputs, maxplayers : MaxPlayersInputs] :
     Distance(b, BaseBody) <= 1}

\* well-formed bodies of two identities
SweepBodies ==
  {b \in Bodies : /\ b.port \in {<<"1">>, <<"2">>}
                  /\ b.name = BaseBody.name
                  /\ b.players = BaseBody.players
                  /\ b.maxplayers = BaseBody.maxplayers}

\* the bodies of two identities and one body the validation refuses
FrameBodies ==
  {b \in Bodies : /\ b.port \in {<<"1">>, <<"2">>, <<"0">>}
                  /\ b.name = BaseBody.name
                  /\ b.players = BaseBody.players
                  /\ b.maxplayers = BaseBody.maxplayers}

\* the bodies sent while the cache is observed: two listings that differ
CacheBodies ==
  {b \in Bodies : /\ b.port = BaseBody.port
                  /\ b.players = BaseBody.players
                  /\ b.maxplayers = BaseBody.maxplayers}

VARIABLES
  program,    \* which variant runs: "part_000" or "app.js"
  config,     \* config.json: caching.type, verbose
  now,        \* the clock, in seconds (timestamp())
  alive,      \* FALSE once an uncaught exception ended the process
  servers,    \* part_000: self.servers, serverKey -> server
  db,         \* app.js: the rows of online_servers, in id order
  nextId,     \* app.js: the next AUTO_INCREMENT id of online_servers
  dbQueue,    \* app.js: queries queued on the one connection self.db
  dbLost,     \* app.js: self.dbLost
  cache,      \* app.js: self.cache
  cacheAge,   \* app.js: self.cacheAge
  file,       \* app.js: servers.lst (exists, data, mtime)
  writers,    \* app.js: fs.writeFile calls in progress
  gets,       \* app.js: the GET / requests handled so far and their responses
  posts,      \* number of POST / handled
  sweeps,     \* number of removeIdleServers runs
  res,        \* the response of the POST / (or, in part_000, GET /) handled last
  lastSweep,  \* the removeIdleServers run that completed last
  dbLog,      \* app.js: what the last call of parseDbErrors logged
  produced,   \* app.js: the payloads the cache has been given so far
  current,    \* app.js: no row has changed since the last listing query that succeeded
  writeAt,    \* app.js: when a heartbeat or sweep last changed a row (-1: never)
  lastHb      \* serverKey -> the most recent heartbeat answered 200

vars ==
  <<program, config, now, alive, servers, db, nextId, dbQueue, dbLost, cache,
    cacheAge, file, writers, gets, posts, sweeps, res, lastSweep, dbLog,
    produced, current, writeAt, lastHb>>

appVars ==
  <<db, nextId, dbQueue, dbLost, dbLog, cache, cacheAge, file, writers, gets,
    produced, current, writeAt>>

StartTime == expiration + 1

\* timestamp()
timestamp == now

NoRes == [op |-> "none"]

NoSweep == [at |-> 0, err |-> FALSE, removed |-> 0]

\* a map with no key
EmptyMap == [k \in {} |-> k]

\* m with key k set to v
Put(m, k, v) == [x \in DOMAIN m \cup {k} |-> IF x = k THEN v ELSE m[x]]

\* m without the keys outside keep
Restrict(m, keep) == [x \in DOMAIN m \cap keep |-> m[x]]

(***************************************************************************)
(* part_000: the in-memory registry                                        *)
(***************************************************************************)

\* the server object built from the request (part_000 lines 127-135)
NewServer(ip, body) ==
  [ip |-> ip, port |-> parseInt(body.port), name |-> body.name,
   map |-> body.map, players |-> body.players,
   maxplayers |-> parseInt(body.maxplayers), lastRefresh |-> timestamp]

\* the three validation tests of part_000: TRUE when the request is refused
Rejected0(server) ==
  \/ ~IsNumber(server.port) \/ ~JsGt(server.port, Num(0))
  \/ server.players = Undefined
  \/ ~IsNumber(server.maxplayers) \/ ~JsGt(server.maxplayers, Num(0))

\* the server as stored: players split and trimmed
Cleaned(server) == [server EXCEPT !.players = cleanPlayers(server.players)]

\* app.post('/') of part_000
Post0(ip, body) ==
  /\ program = "part_000" /\ alive
  /\ posts < MaxPosts
  /\ posts' = posts + 1
  /\ LET server == NewServer(ip, body)
         key == serverKey(server.ip, server.port)
     IN IF Rejected0(server)
          THEN /\ res' = [op |-> "post", status |-> 400, key |-> key, body |-> body]
               /\ UNCHANGED <<servers, lastHb>>
          ELSE /\ servers' = Put(servers, key, Cleaned(server))
               /\ lastHb' = Put(lastHb, key, Cleaned(server))
               /\ res' = [op |-> "post", status |-> 200, key |-> key, body |-> body]
  /\ UNCHANGED <<program, config, now, alive, sweeps, lastSweep>>
  /\ UNCHANGED appVars

\* the keys removeIdleServers deletes at time t
IdleKeys0(t) ==
  {k \in DOMAIN servers : t - servers[k].lastRefresh > max_idle_time}

\* removeIdleServers of part_000, run by setInterval
Sweep0 ==
  /\ program = "part_000" /\ alive
  /\ sweeps < MaxSweeps
  /\ sweeps' = sweeps + 1
  /\ servers' = Restrict(servers, DOMAIN servers \ IdleKeys0(timestamp))
  /\ lastSweep' = [at |-> timestamp, err |-> FALSE,
                   removed |-> Cardinality(IdleKeys0(timestamp))]
  /\ UNCHANGED <<program, config, now, alive, posts, res, lastHb>>
  /\ UNCHANGED appVars

\* app.get('/') of part_000: the whole registry, status 200
Get0 ==
  /\ program = "part_000" /\ alive
  /\ res' = [op |-> "get", status |-> 200, body |-> servers]
  /\ UNCHANGED <<program, config, now, alive, servers, posts, sweeps, lastSweep, lastHb>>
  /\ UNCHANGED appVars

(***************************************************************************)
(* app.js: the registry in MySQL                                           *)
(***************************************************************************)

\* Rejected1 without the test of maxplayers
Rejected1NoMax(server) ==
  \/ ~IsNumber(server.port) \/ JsStrictEq(server.port, Num(0))
  \/ (server.players # << >> /\ server.players = Undefined)

\* the three validation tests of app.js: TRUE when the request is refused
Rejected1(server) ==
  \/ ~IsNumber(server.port) \/ JsStrictEq(server.port, Num(0))
  \/ (server.players # << >> /\ server.players = Undefined)
  \/ ~IsNumber(server.maxplayers) \/ JsStrictEq(server.maxplayers, Num(0))

\* the SQL text holds the word NaN where a number is expected: MySQL
\* refuses the statement
Malformed(q) ==
  \/ q.kind = "select" /\ q.server.port.nan
  \/ q.kind \in {"update", "insert"} /\ (q.server.port.nan \/ q.server.maxplayers.nan)

\* the rows SELECT * ... WHERE ip = .. AND port = .. returns
RowsOf(ip, port) ==
  SelectSeq(db, LAMBDA r : r.ip = ip /\ r.port = port.val)

\* the column values an UPDATE or INSERT writes for server
RowValues(server, id) ==
  [id |-> id, ip |-> server.ip, port |-> server.port.val, name |-> server.name,
   map |-> server.map, players |-> join(server.players),
   max_players |-> server.maxplayers.val, last_refresh |-> server.lastRefresh]

\* UPDATE online_servers SET name, map, players, max_players, last_refresh WHERE id = id
UpdateRow(server, id) ==
  [i \in 1..Len(db) |->
     IF db[i].id = id
       THEN [db[i] EXCEPT !.name = server.name, !.map = server.map,
                          !.players = join(server.players),
                          !.max_players = server.maxplayers.val,
                          !.last_refresh = server.lastRefresh]
       ELSE db[i]]

\* INSERT INTO online_servers (...) VALUES (...)
InsertRow(server) == Append(db, RowValues(server, nextId))

\* DeleteIdle with the comparison one second off
DeleteIdleLate(threshold) == SelectSeq(db, LAMBDA r : ~(r.last_refresh < threshold - 1))

\* DeleteIdle that also stamps the rows it keeps with the threshold
DeleteIdleStamp(threshold) ==
  LET kept == SelectSeq(db, LAMBDA r : ~(r.last_refresh < threshold))
  IN [i \in 1..Len(kept) |-> [kept[i] EXCEPT !.last_refresh = threshold]]

\* DeleteIdle that removes the rows refreshed exactly at the threshold too
DeleteIdleOrEqual(threshold) == SelectSeq(db, LAMBDA r : ~(r.last_refresh <= threshold))

\* DELETE FROM online_servers WHERE last_refresh < threshold
DeleteIdle(threshold) == SelectSeq(db, LAMBDA r : ~(r.last_refresh < threshold))

\* self.dbLost after the call if the flag were assigned the condition under
\* which the loss is logged
DbLostAfterLogged(err) == err /\ (~dbLost \/ config.verbose)

\* self.dbLost after parseDbErrors(err)
DbLostAfter(err) ==
  IF ~err THEN FALSE
  ELSE IF ~dbLost \/ config.verbose THEN TRUE ELSE dbLost

\* DbLogged without the flag: every failed operation logs the loss
DbLoggedEach(err) ==
  IF ~err THEN (IF dbLost THEN "regained" ELSE "none") ELSE "lost"

\* what parseDbErrors(err) logs
DbLogged(err) ==
  IF ~err THEN (IF dbLost THEN "regained" ELSE "none")
  ELSE IF ~dbLost \/ config.verbose THEN "lost" ELSE "none"

\* the return value of parseDbErrors(err)
parseDbErrors(err) == err

\* app.post('/') of app.js: validation, then the SELECT is queued and the
\* request is answered
Post1(ip, body) ==
  /\ program = "app.js" /\ alive
  /\ posts < MaxPosts
  /\ posts' = posts + 1
  /\ LET server == NewServer(ip, body)
         key == serverKey(server.ip, server.port)
     IN IF Rejected1(server)
          THEN /\ res' = [op |-> "post", status |-> 400, key |-> key, body |-> body]
               /\ UNCHANGED <<dbQueue, lastHb>>
          ELSE /\ dbQueue' = Append(dbQueue, [kind |-> "select", server |-> Cleaned(server)])
               /\ lastHb' = Put(lastHb, key, Cleaned(server))
               /\ res' = [op |-> "post", status |-> 200, key |-> key, body |-> body]
  /\ UNCHANGED <<program, config, now, alive, servers, sweeps, lastSweep>>
  /\ UNCHANGED <<db, nextId, dbLost, dbLog, cache, cacheAge, file, writers, gets,
                 produced, current, writeAt>>

\* removeIdleServers of app.js, run by setInterval: the DELETE is queued
Sweep1 ==
  /\ program = "app.js" /\ alive
  /\ sweeps < MaxSweeps
  /\ sweeps' = sweeps + 1
  /\ dbQueue' = Append(dbQueue, [kind |-> "delete", at |-> timestamp,
                                 threshold |-> timestamp - max_idle_time])
  /\ UNCHANGED <<program, config, now, alive, servers, posts, res, lastSweep, lastHb>>
  /\ UNCHANGED <<db, nextId, dbLost, dbLog, cache, cacheAge, file, writers, gets,
                 produced, current, writeAt>>

\* the callback of the heartbeat's SELECT (app.js lines 314-346)
SelectDone(q, err) ==
  /\ dbLost' = DbLostAfter(err)
  /\ IF parseDbErrors(err)
       THEN dbQueue' = Tail(dbQueue)
       ELSE LET rows == RowsOf(q.server.ip, q.server.port)
            IN IF Len(rows) > 0
                 THEN dbQueue' = Append(Tail(dbQueue),
                        [kind |-> "update", server |-> q.server, id |-> rows[1].id])
                 ELSE dbQueue' = Append(Tail(dbQueue),
                        [kind |-> "insert", server |-> q.server])
  /\ dbLog' = DbLogged(err)
  /\ UNCHANGED <<db, nextId, cache, cacheAge, file, writers, gets, alive, lastSweep,
                 produced, current, writeAt>>

\* the UPDATE or INSERT runs, then its callback (app.js lines 343-345)
WriteDone(q, err) ==
  /\ dbLost' = DbLostAfter(err)
  /\ dbQueue' = Tail(dbQueue)
  /\ IF err THEN UNCHANGED <<db, nextId>>
     ELSE IF q.kind = "update"
       THEN db' = UpdateRow(q.server, q.id) /\ UNCHANGED nextId
       ELSE db' = InsertRow(q.server) /\ nextId' = nextId + 1
  /\ dbLog' = DbLogged(err)
  /\ current' = (current /\ db' = db)
  /\ writeAt' = IF db' = db THEN writeAt ELSE timestamp
  /\ UNCHANGED <<cache, cacheAge, file, writers, gets, alive, lastSweep, produced>>

\* the DELETE runs, then its callback (app.js lines 226-231)
DeleteDone(q, err) ==
  /\ dbLost' = DbLostAfter(err)
  /\ dbQueue' = Tail(dbQueue)
  /\ db' = IF err THEN db ELSE DeleteIdle(q.threshold)
  /\ dbLog' = DbLogged(err)
  /\ lastSweep' = [at |-> q.at, err |-> err,
                   removed |-> IF err THEN 0 ELSE Len(db) - Len(DeleteIdle(q.threshold))]
  /\ current' = (current /\ db' = db)
  /\ writeAt' = IF db' = db THEN writeAt ELSE timestamp
  /\ UNCHANGED <<nextId, cache, cacheAge, file, writers, gets, alive, produced>>

(***************************************************************************)
(* app.js: the cache of the listing                                        *)
(***************************************************************************)

\* a result row after `delete result[i].id`
WithoutId(r) ==
  [ip |-> r.ip, port |-> r.port, name |-> r.name, map |-> r.map,
   players |-> r.players, max_players |-> r.max_players,
   last_refresh |-> r.last_refresh]

\* JSON.stringify of an array of rows, as its sequence of tokens:
\* "[", one token per row, "]"
Serialize(rows) ==
  <<"[">> \o [i \in 1..Len(rows) |-> WithoutId(rows[i])] \o <<"]">>

\* the body of res.json(500, { result: 'error' })
ErrorBody == <<"{result:error}">>

\* getCacheAge()
getCacheAge ==
  IF config.caching_type = "memory" THEN timestamp - cacheAge
  ELSE IF ~file.exists THEN expiration
  ELSE timestamp - file.mtime

\* the cached payload a reader is given at this moment
Snapshot ==
  IF config.caching_type = "memory" THEN cache
  ELSE IF file.exists THEN file.data ELSE << >>

\* NeedsRefresh with >= for >
NeedsRefreshAtExpiration == getCacheAge >= expiration

\* retreiveList(res) tests the age of the cache
NeedsRefresh == getCacheAge > expiration

\* a listing query is queued, or a writeFile of its result is in progress
RefreshInFlight ==
  writers # << >> \/ \E i \in 1..Len(dbQueue) : dbQueue[i].kind = "list"

\* what holds of the store when a GET / is handled: the listing it would
\* serialize to, whether the cache was refreshed after the last change, and
\* whether that change is older than caching.expiration with no refresh
\* in flight
Seen ==
  [listing |-> Serialize(db), current |-> current,
   late |-> writeAt >= 0 /\ timestamp - writeAt > expiration /\ ~RefreshInFlight]

\* app.get('/') of app.js, that is retreiveList(res): the listing query is
\* queued when the cache has expired, then the cache is sent
Get1 ==
  /\ program = "app.js" /\ alive
  /\ Len(gets) < MaxGets
  /\ LET id == Len(gets) + 1
         trig == NeedsRefresh
     IN /\ dbQueue' = IF trig THEN Append(dbQueue, [kind |-> "list", req |-> id])
                               ELSE dbQueue
        /\ gets' = Append(gets,
             IF config.caching_type = "memory"
               THEN [trig |-> trig, snap |-> Snapshot, seen |-> Seen,
                     status |-> 200, body |-> cache, state |-> "done"]
               ELSE [trig |-> trig, snap |-> Snapshot, seen |-> Seen,
                     status |-> 200, body |-> << >>, state |-> "open"])
  /\ UNCHANGED <<program, config, now, alive, servers, posts, sweeps, res, lastSweep, lastHb>>
  /\ UNCHANGED <<db, nextId, dbLost, dbLog, cache, cacheAge, file, writers,
                 produced, current, writeAt>>

\* fs.createReadStream(self.cacheFile) opens the file; without the file the
\* stream emits 'error', which nothing listens to
StreamOpen(i) ==
  /\ program = "app.js" /\ alive
  /\ i \in 1..Len(gets) /\ gets[i].state = "open"
  /\ IF file.exists
       THEN /\ gets' = [gets EXCEPT ![i].state = "read"]
            /\ UNCHANGED alive
       ELSE /\ gets' = [gets EXCEPT ![i].state = "failed"]
            /\ alive' = FALSE
  /\ UNCHANGED <<program, config, now, servers, posts, sweeps, res, lastSweep, lastHb>>
  /\ UNCHANGED <<db, nextId, dbQueue, dbLost, dbLog, cache, cacheAge, file, writers,
                 produced, current, writeAt>>

\* the stream reads on from its offset and pipes the data to res; at the
\* end of the file the response is ended
StreamRead(i) ==
  /\ program = "app.js" /\ alive
  /\ i \in 1..Len(gets) /\ gets[i].state = "read"
  /\ LET chunk == SubSeq(file.data, Len(gets[i].body) + 1, Len(file.data))
     IN IF chunk = << >>
          THEN gets' = [gets EXCEPT ![i].state = "done"]
          ELSE gets' = [gets EXCEPT ![i].body = @ \o chunk]
  /\ UNCHANGED <<program, config, now, alive, servers, posts, sweeps, res, lastSweep, lastHb>>
  /\ UNCHANGED <<db, nextId, dbQueue, dbLost, dbLog, cache, cacheAge, file, writers,
                 produced, current, writeAt>>

\* data written at offset 0 over old
Overlay(data, old) == data \o SubSeq(old, Len(data) + 1, Len(old))

\* removes element i of sequence q
Without(q, i) == SubSeq(q, 1, i - 1) \o SubSeq(q, i + 1, Len(q))

\* a step of a fs.writeFile(self.cacheFile, serializedData) in progress:
\* the file is opened with truncation, then the data is written and the
\* file closed
WriteStep(i) ==
  /\ program = "app.js" /\ alive
  /\ i \in 1..Len(writers)
  /\ IF writers[i].state = "open"
       THEN /\ file' = [exists |-> TRUE, data |-> << >>, mtime |-> timestamp]
            /\ writers' = [writers EXCEPT ![i].state = "write"]
       ELSE /\ file' = [exists |-> TRUE, data |-> Overlay(writers[i].data, file.data),
                        mtime |-> timestamp]
            /\ writers' = Without(writers, i)
  /\ UNCHANGED <<program, config, now, alive, servers, posts, sweeps, res, lastSweep, lastHb>>
  /\ UNCHANGED <<db, nextId, dbQueue, dbLost, dbLog, cache, cacheAge, gets,
                 produced, current, writeAt>>

\* updateCache that keeps the old payload in memory and only resets its age
updateCacheAgeOnly(data) ==
  IF config.caching_type = "memory"
    THEN /\ cacheAge' = timestamp
         /\ UNCHANGED <<cache, writers, produced>>
    ELSE /\ writers' = Append(writers, [data |-> Serialize(data), state |-> "open"])
         /\ produced' = produced \cup {Serialize(data)}
         /\ UNCHANGED <<cache, cacheAge>>

\* updateCache(data)
updateCache(data) ==
  IF config.caching_type = "memory"
    THEN /\ cache' = Serialize(data)
         /\ cacheAge' = timestamp
         /\ produced' = produced \cup {Serialize(data)}
         /\ UNCHANGED writers
    ELSE /\ writers' = Append(writers, [data |-> Serialize(data), state |-> "open"])
         /\ produced' = produced \cup {Serialize(data)}
         /\ UNCHANGED <<cache, cacheAge>>

\* res.json(500, { result: 'error' }) on the response of request i, which
\* retreiveList has answered already. crash: the outcome when the call
\* throws because the headers are sent.
ErrorResponse(i, crash) ==
  IF gets[i].state \in {"open", "read"} /\ gets[i].body = << >>
    THEN /\ gets' = [gets EXCEPT ![i].status = 500, ![i].body = ErrorBody,
                                  ![i].state = "done"]
         /\ UNCHANGED alive
    ELSE /\ alive' = ~(crash \/ gets[i].state = "read")
         /\ UNCHANGED gets

\* the listing query runs, then its callback (app.js lines 163-171)
ListDone(q, err, crash) ==
  /\ dbLost' = DbLostAfter(err)
  /\ dbQueue' = Tail(dbQueue)
  /\ IF parseDbErrors(err)
       THEN /\ ErrorResponse(q.req, crash)
            /\ UNCHANGED <<cache, cacheAge, writers, produced, current>>
       ELSE /\ updateCache(db)
            /\ current' = TRUE
            /\ UNCHANGED <<gets, alive>>
  /\ dbLog' = DbLogged(err)
  /\ UNCHANGED <<db, nextId, file, lastSweep, writeAt>>

\* the connection runs the query at the head of its queue and calls the
\* query's callback; err: the query fails
DbStep(err, crash) ==
  /\ program = "app.js" /\ alive
  /\ dbQueue # << >>
  /\ LET q == Head(dbQueue)
         e == err \/ Malformed(q)
     IN CASE q.kind = "select" -> SelectDone(q, e)
          [] q.kind \in {"update", "insert"} -> WriteDone(q, e)
          [] q.kind = "delete" -> DeleteDone(q, e)
          [] q.kind = "list" -> ListDone(q, e, crash)
  /\ UNCHANGED <<program, config, now, servers, posts, sweeps, res, lastHb>>

\* a second passes
Tick ==
  /\ alive
  /\ now < StartTime + MaxTicks
  /\ now' = now + 1
  /\ UNCHANGED <<program, config, alive, servers, posts, sweeps, res, lastSweep, lastHb>>
  /\ UNCHANGED appVars

(***************************************************************************)
(* The specification                                                       *)
(***************************************************************************)
Init ==
  /\ program \in {"part_000", "app.js"}
  /\ config \in [caching_type : {"memory", "file"}, verbose : BOOLEAN]
  /\ program = "part_000" => config = [caching_type |-> "memory", verbose |-> FALSE]
  /\ now = StartTime
  /\ alive = TRUE
  /\ servers = EmptyMap
  /\ db = << >>
  /\ nextId = 1
  /\ dbQueue = << >>
  /\ dbLost = FALSE
  /\ cache = << >>
  /\ cacheAge = 0
  /\ file \in {[exists |-> FALSE, data |-> << >>, mtime |-> 0],
               [exists |-> TRUE, data |-> Serialize(<< >>), mtime |-> 0]}
  /\ (program = "part_000" \/ config.caching_type = "memory") => ~file.exists
  /\ writers = << >>
  /\ gets = << >>
  /\ posts = 0
  /\ sweeps = 0
  /\ res = NoRes
  /\ lastSweep = NoSweep
  /\ dbLog = "none"
  /\ produced = {Snapshot}
  /\ current = FALSE
  /\ writeAt = -1
  /\ lastHb = EmptyMap

\* the registries of part_000 and of app.js under heartbeats and sweeps
Next ==
  \/ \E ip \in IPs, body \in Bodies : Post0(ip, body)
  \/ Sweep0
  \/ Get0
  \/ \E ip \in IPs, body \in Bodies : Post1(ip, body)
  \/ Sweep1
  \/ \E err \in BOOLEAN : DbStep(err, FALSE)
  \/ Tick

\* the cache layer plays no part here: one configuration of it is enough
InitRegistry == Init /\ config.caching_type = "memory" /\ ~config.verbose

Spec == InitRegistry /\ [][Next]_vars

\* app.js with its cache layer, under listing requests and heartbeats
NextCache ==
  \/ \E ip \in IPs, body \in CacheBodies : posts < MaxCachePosts /\ Post1(ip, body)
  \/ Get1
  \/ \E err \in BOOLEAN, crash \in BOOLEAN : DbStep(err, crash)
  \/ \E i \in 1..MaxGets : StreamOpen(i)
  \/ \E i \in 1..MaxGets : StreamRead(i)
  \/ \E i \in 1..MaxGets : WriteStep(i)
  \/ Tick

InitCache == Init /\ program = "app.js" /\ ~config.verbose

SpecCache == InitCache /\ [][NextCache]_vars

\* app.js with the memory cache
NextMemCache ==
  \/ \E ip \in IPs, body \in CacheBodies : posts < MaxCachePosts /\ Post1(ip, body)
  \/ Get1
  \/ \E err \in BOOLEAN, crash \in BOOLEAN : DbStep(err, crash)
  \/ Tick

InitMemCache == InitCache /\ config.caching_type = "memory"

SpecMemCache == InitMemCache /\ [][NextMemCache]_vars

\* both registries under the heartbeats of two identities, sweeps and time
NextSweep ==
  \/ \E ip \in IPs, body \in SweepBodies : Post0(ip, body)
  \/ Sweep0
  \/ \E ip \in IPs, body \in SweepBodies : Post1(ip, body)
  \/ Sweep1
  \/ \E err \in BOOLEAN : DbStep(err, FALSE)
  \/ Tick

SpecSweep == InitRegistry /\ [][NextSweep]_vars

\* both registries under every request body, well-formed or not
NextValidate ==
  \/ \E ip \in IPs, body \in Bodies : Post0(ip, body)
  \/ \E ip \in IPs, body \in Bodies : Post1(ip, body)
  \/ \E err \in BOOLEAN : DbStep(err, FALSE)

SpecValidate == InitRegistry /\ [][NextValidate]_vars

\* the registry of app.js under both settings of verbose
NextDb ==
  \/ \E ip \in IPs, body \in SweepBodies : Post1(ip, body)
  \/ Sweep1
  \/ \E err \in BOOLEAN : DbStep(err, FALSE)

InitDb == Init /\ program = "app.js" /\ config.caching_type = "memory"

SpecDb == InitDb /\ [][NextDb]_vars

\* both registries under heartbeats of two identities, refused requests,
\* listing requests, sweeps and time
NextFrame ==
  \/ \E ip \in IPs, body \in FrameBodies : Post0(ip, body)
  \/ Sweep0
  \/ Get0
  \/ \E ip \in IPs, body \in FrameBodies : Post1(ip, body)
  \/ Sweep1
  \/ Get1
  \/ \E err \in BOOLEAN : DbStep(err, FALSE)
  \/ Tick

SpecFrame == InitRegistry /\ [][NextFrame]_vars

\* the cache layer of app.js, memory-backed or file-backed, in front of an
\* empty table
NextFresh ==
  \/ Get1
  \/ \E err \in BOOLEAN, crash \in BOOLEAN : DbStep(err, crash)
  \/ \E i \in 1..MaxGets : StreamOpen(i)
  \/ \E i \in 1..MaxGets : StreamRead(i)
  \/ \E i \in 1..MaxGets : WriteStep(i)
  \/ Tick

SpecFresh == InitCache /\ [][NextFresh]_vars

(***************************************************************************)
(* part_001: heartbeats written to MySQL, listing and sweep on             *)
(* self.servers, which part_001 never assigns                              *)
(***************************************************************************)

\* the three validation tests of part_001: TRUE when the request is refused
Rejected2(server) ==
  \/ ~IsNumber(server.port) \/ ~JsGt(server.port, Num(0))
  \/ (server.players # << >> /\ server.players = Undefined)
  \/ ~IsNumber(server.maxplayers) \/ ~JsGt(server.maxplayers, Num(0))

\* app.post('/') of part_001: validation, then the SELECT is queued and the
\* request is answered
Post2(ip, body) ==
  /\ program = "part_001" /\ alive
  /\ posts < MaxPosts
  /\ posts' = posts + 1
  /\ LET server == NewServer(ip, body)
         key == serverKey(server.ip, server.port)
     IN IF Rejected2(server)
          THEN /\ res' = [op |-> "post", status |-> 400, key |-> key, body |-> body]
               /\ UNCHANGED <<dbQueue, lastHb>>
          ELSE /\ dbQueue' = Append(dbQueue, [kind |-> "select", server |-> Cleaned(server)])
               /\ lastHb' = Put(lastHb, key, Cleaned(server))
               /\ res' = [op |-> "post", status |-> 200, key |-> key, body |-> body]
  /\ UNCHANGED <<program, config, now, alive, servers, sweeps, lastSweep>>
  /\ UNCHANGED <<db, nextId, dbLost, dbLog, cache, cacheAge, file, writers, gets,
                 produced, current, writeAt>>

\* removeIdleServers of part_001: a for-in loop over self.servers, which is
\* undefined, so the loop body never runs; online_servers is not touched
Sweep2 ==
  /\ program = "part_001" /\ alive
  /\ sweeps < MaxSweeps
  /\ sweeps' = sweeps + 1
  /\ lastSweep' = [at |-> timestamp, err |-> FALSE, removed |-> 0]
  /\ UNCHANGED <<program, config, now, alive, servers, posts, res, lastHb>>
  /\ UNCHANGED appVars

\* app.get('/') of part_001: res.json(200, self.servers) with self.servers
\* undefined
Get2 ==
  /\ program = "part_001" /\ alive
  /\ res' = [op |-> "get", status |-> 200, body |-> Undefined]
  /\ UNCHANGED <<program, config, now, alive, servers, posts, sweeps, lastSweep, lastHb>>
  /\ UNCHANGED appVars

\* the connection of part_001 runs the query at the head of its queue and
\* calls the query's callback; err: the query fails
DbStep2(err) ==
  /\ program = "part_001" /\ alive
  /\ dbQueue # << >>
  /\ LET q == Head(dbQueue)
         e == err \/ Malformed(q)
     IN CASE q.kind = "select" -> SelectDone(q, e)
          [] q.kind \in {"update", "insert"} -> WriteDone(q, e)
  /\ UNCHANGED <<program, config, now, servers, posts, sweeps, res, lastHb>>

\* part_001 after setupVariables: no self.servers, an empty table
InitPart001 ==
  /\ program = "part_001"
  /\ config \in {[caching_type |-> "memory", verbose |-> v] : v \in BOOLEAN}
  /\ now = StartTime
  /\ alive = TRUE
  /\ servers = EmptyMap
  /\ db = << >>
  /\ nextId = 1
  /\ dbQueue = << >>
  /\ dbLost = FALSE
  /\ cache = << >>
  /\ cacheAge = 0
  /\ file = [exists |-> FALSE, data |-> << >>, mtime |-> 0]
  /\ writers = << >>
  /\ gets = << >>
  /\ posts = 0
  /\ sweeps = 0
  /\ res = NoRes
  /\ lastSweep = NoSweep
  /\ dbLog = "none"
  /\ produced = {<< >>}
  /\ current = FALSE
  /\ writeAt = -1
  /\ lastHb = EmptyMap

\* part_001 under the heartbeats of two identities, listing requests,
\* sweeps and time
NextPart001 ==
  \/ \E ip \in IPs, body \in SweepBodies : Post2(ip, body)
  \/ Sweep2
  \/ Get2
  \/ \E err \in BOOLEAN : DbStep2(err)
  \/ Tick

SpecPart001 == InitPart001 /\ [][NextPart001]_vars

\* the two programs that have parseDbErrors, under both settings of verbose
InitParse == InitDb \/ InitPart001

NextParse ==
  \/ NextDb
  \/ \E ip \in IPs, body \in SweepBodies : Post2(ip, body)
  \/ \E err \in BOOLEAN : DbStep2(err)

SpecParse == InitParse /\ [][NextParse]_vars

(***************************************************************************)
(* Properties                                                              *)
(***************************************************************************)

\* the serverKey of a row of online_servers
RowKey(r) == serverKey(r.ip, Num(r.port))

\* the rows stored for identity k
RowsWithKey(k) == SelectSeq(db, LAMBDA r : RowKey(r) = k)

\* a heartbeat of identity k has a query queued
Pending(k) ==
  \E i \in 1..Len(dbQueue) :
    /\ dbQueue[i].kind \in {"select", "update", "insert"}
    /\ serverKey(dbQueue[i].server.ip, dbQueue[i].server.port) = k

\* C1: the store holds at most one entry per (ip, port): no two rows of
\* online_servers share ip and port, and every entry of self.servers sits
\* under the key of its own ip and port
C1_OneEntryPerIdentity ==
  /\ \A i, j \in 1..Len(db) :
       (db[i].ip = db[j].ip /\ db[i].port = db[j].port) => i = j
  /\ \A k \in DOMAIN servers : serverKey(servers[k].ip, servers[k].port) = k

\* every stored entry of an identity whose heartbeats have all been carried
\* out holds the fields of the heartbeat received last
C2_Fields ==
  \A k \in DOMAIN lastHb :
    /\ k \in DOMAIN servers => servers[k] = lastHb[k]
    /\ ~Pending(k) =>
         \A i \in 1..Len(db) :
           RowKey(db[i]) = k => db[i] = RowValues(lastHb[k], db[i].id)

\* no step lowers the lastRefresh of an entry that stays in the store
C2_Monotone ==
  /\ \A k \in DOMAIN servers \cap DOMAIN servers' :
       servers'[k].lastRefresh >= servers[k].lastRefresh
  /\ \A i \in 1..Len(db), j \in 1..Len(db') :
       db[i].id = db'[j].id => db'[j].last_refresh >= db[i].last_refresh

\* C2: per identity, lastRefresh never decreases from one accepted heartbeat
\* to the next and the stored name, map, players and maxplayers are those
\* of the heartbeat received last
C2_LastWriteWins == []C2_Fields /\ [][C2_Monotone]_vars

\* a run of removeIdleServers completes in this step: the loop of part_000,
\* or the callback of the DELETE of app.js
SweepCompletes ==
  \/ program = "part_000" /\ sweeps' = sweeps + 1
  \/ /\ program = "app.js" /\ dbQueue # << >>
     /\ Head(dbQueue).kind = "delete" /\ dbQueue' = Tail(dbQueue)

\* at time t no heartbeat of identity k has been accepted for longer than
\* max_idle_time
IdleAt(k, t) == t - lastHb[k].lastRefresh > max_idle_time

\* identity k has no entry in the store after the step
AbsentAfter(k) == k \notin DOMAIN servers' /\ \A i \in 1..Len(db') : RowKey(db'[i]) # k

\* C3 as stated: once a sweep tick has run, every identity idle for longer
\* than max_idle_time at that tick is absent from the store
C3_AbsentAfterSweep ==
  [][SweepCompletes =>
       \A k \in DOMAIN lastHb : IdleAt(k, lastSweep'.at) => AbsentAfter(k)]_vars

\* C3 amended: the identity is absent as soon as a sweep tick taken after
\* the idle time has run in part_000, or has had its DELETE carried out
\* without error in app.js
C3_AbsentAfterSweepDone ==
  [][(SweepCompletes /\ ~lastSweep'.err) =>
       \A k \in DOMAIN lastHb : IdleAt(k, lastSweep'.at) => AbsentAfter(k)]_vars

\* a DELETE of app.js has removed the row of an identity idle for too long
C3_Witness ==
  /\ program = "app.js" /\ ~lastSweep.err /\ lastSweep.removed > 0
  /\ \E k \in DOMAIN lastHb :
       /\ lastSweep.at - lastHb[k].lastRefresh > max_idle_time
       /\ RowsWithKey(k) = << >>

\* the request body is one the validation must refuse: port parses to 0,
\* players is missing, or maxplayers parses to 0
Refusable(body) ==
  \/ parseInt(body.port) = Num(0)
  \/ body.players = Undefined
  \/ parseInt(body.maxplayers) = Num(0)

\* C9: a POST / with port 0, without players or with maxplayers 0 is
\* answered 400 and changes neither self.servers nor the table, and queues
\* no query
C9_RefusedUnchanged ==
  [][(posts' = posts + 1 /\ Refusable(res'.body)) =>
       /\ res'.status = 400
       /\ servers' = servers /\ db' = db /\ dbQueue' = dbQueue]_vars

\* app.js has refused a POST / whose maxplayers is "0" while a heartbeat's
\* query was queued
C9_Witness ==
  /\ program = "app.js" /\ res.op = "post" /\ res.status = 400
  /\ parseInt(res.body.maxplayers) = Num(0)
  /\ dbQueue # << >>

\* the port or maxplayers of the body is negative or not a number
NegativeOrNaN(body) ==
  \/ ~JsGt(parseInt(body.port), Num(0)) /\ parseInt(body.port) # Num(0)
  \/ ~JsGt(parseInt(body.maxplayers), Num(0)) /\ parseInt(body.maxplayers) # Num(0)

\* C10: every entry of the registry has port > 0 and maxplayers > 0, and a
\* POST / whose port or maxplayers is negative or NaN is answered 400
C10_PositiveEntries ==
  /\ \A k \in DOMAIN servers :
       JsGt(servers[k].port, Num(0)) /\ JsGt(servers[k].maxplayers, Num(0))
  /\ \A i \in 1..Len(db) : db[i].port > 0 /\ db[i].max_players > 0
  /\ (res.op = "post" /\ NegativeOrNaN(res.body)) => res.status = 400

\* the listing queries queued on the connection
ListQueries == {i \in 1..Len(dbQueue) : dbQueue[i].kind = "list"}

\* C4: at most one refresh (SELECT * FROM online_servers) is in flight
C4_SingleFlight == Cardinality(ListQueries) <= 1

\* the listing query that GET / number i queued has not completed
ListPending(i) == \E j \in ListQueries : dbQueue[j].req = i

\* C5: every GET / is answered 200 with the snapshot that was current when
\* it was handled, and the answer is complete before the refresh it
\* triggered completes
C5_AnsweredFromSnapshot ==
  \A i \in 1..Len(gets) :
    /\ gets[i].state # "failed"
    /\ gets[i].state = "done" => gets[i].status = 200 /\ gets[i].body = gets[i].snap
    /\ (gets[i].trig /\ ~ListPending(i)) => gets[i].state = "done"

\* the listing query at the head of the queue fails in this step
RefreshFails ==
  /\ dbQueue # << >> /\ Head(dbQueue).kind = "list"
  /\ dbQueue' = Tail(dbQueue) /\ dbLost'

\* C6: a failed refresh leaves the snapshot and its age alone, emits no
\* error response and leaves the process running
C6_FailedRefreshSilent ==
  [][RefreshFails =>
       /\ cache' = cache /\ cacheAge' = cacheAge
       /\ file' = file /\ writers' = writers
       /\ gets' = gets
       /\ alive']_vars

\* C7: every response body is the whole serialization of one listing: the
\* payload of one refresh, or the snapshot the server started with
C7_NoTornSnapshot ==
  \A i \in 1..Len(gets) :
    (gets[i].state = "done" /\ gets[i].status = 200) => gets[i].body \in produced

\* C8 as stated: a GET / handled more than caching.expiration after the
\* last change of the listing, with no refresh in flight, returns the
\* listing with that change
C8_FreshAfterExpiration ==
  \A i \in 1..Len(gets) :
    (gets[i].state = "done" /\ gets[i].seen.late) =>
      gets[i].body = gets[i].seen.listing

\* C8 amended: with the memory cache, a GET / handled after a listing query
\* that ran after the last change of the listing has succeeded returns the
\* listing with that change
C8_FreshAfterRefresh ==
  config.caching_type = "memory" =>
    \A i \in 1..Len(gets) :
      gets[i].seen.current =>
        /\ gets[i].state = "done" /\ gets[i].status = 200
        /\ gets[i].body = gets[i].seen.listing

\* a GET / has returned a registered server from the memory cache
C8_Witness ==
  /\ config.caching_type = "memory"
  /\ \E i \in 1..Len(gets) :
       /\ gets[i].seen.current
       /\ Len(gets[i].body) = 3
       /\ gets[i].body = Serialize(db)

\* after the step the store holds an entry of identity k with the fields of
\* the heartbeat of k answered 200 last
AppliedAfter(k) ==
  \/ k \in DOMAIN servers' /\ servers'[k] = lastHb'[k]
  \/ \E i \in 1..Len(db') :
       RowKey(db'[i]) = k /\ db'[i] = RowValues(lastHb'[k], db'[i].id)

\* C11: when POST / answers 200 { success: true } the upsert of that
\* heartbeat is in the registry (self.servers, or the table online_servers)
\* at the moment the response is sent
C11_AppliedWhenAnswered ==
  [][(posts' = posts + 1 /\ res'.status = 200) => AppliedAfter(res'.key)]_vars

\* the query of a heartbeat at the head of the queue fails in this step
HeartbeatQueryFails ==
  /\ dbQueue # << >>
  /\ Head(dbQueue).kind \in {"select", "update", "insert"}
  /\ dbQueue' = Tail(dbQueue) /\ dbLost'

\* res is the response to the POST / that issued query q
AnswerOf(q) ==
  /\ res.op = "post"
  /\ \E ip \in IPs :
       q.server = [Cleaned(NewServer(ip, res.body))
                     EXCEPT !.lastRefresh = q.server.lastRefresh]

\* C12: when the SELECT, INSERT or UPDATE of a heartbeat fails, the POST /
\* that issued it is not answered 200 { success: true }
C12_FailureSurfaced ==
  [][(HeartbeatQueryFails /\ AnswerOf(Head(dbQueue))) => res.status # 200]_vars

\* the UPDATE or INSERT of a heartbeat is carried out without error in this
\* step: all the queries of that heartbeat have completed
HeartbeatWritten ==
  /\ dbQueue # << >>
  /\ Head(dbQueue).kind \in {"update", "insert"}
  /\ dbQueue' = Tail(dbQueue) /\ ~dbLost'

\* after the step the table holds a row of the identity of server that
\* carries the lastRefresh of server
StoredAfter(server) ==
  \E i \in 1..Len(db') :
    /\ RowKey(db'[i]) = serverKey(server.ip, server.port)
    /\ db'[i].last_refresh = server.lastRefresh

\* the sweep completed last was taken when server had been refreshed less
\* than max_idle_time before: a row carrying its lastRefresh is not idle
FreshAtSweep(server) == ~(lastSweep.at - server.lastRefresh > max_idle_time)

\* C13: however the DELETE of removeIdleServers interleaves with the SELECT
\* and the UPDATE/INSERT of a heartbeat, once the heartbeat's queries have
\* completed the table holds an entry of that identity with the heartbeat's
\* lastRefresh
C13_NoLostHeartbeat ==
  [][(HeartbeatWritten /\ FreshAtSweep(Head(dbQueue).server)) =>
       StoredAfter(Head(dbQueue).server)]_vars

\* identity k has an entry in the store
Present(k) == k \in DOMAIN servers \/ RowsWithKey(k) # << >>

\* identity k has an entry in the store after the step
PresentAfter(k) ==
  k \in DOMAIN servers' \/ \E i \in 1..Len(db') : RowKey(db'[i]) = k

\* identity k is being refreshed in time: its last accepted heartbeat is not
\* older than max_idle_time, and came not more than max_idle_time after the
\* heartbeat its stored entry is of
RefreshedInTime(k) ==
  /\ now - lastHb[k].lastRefresh <= max_idle_time
  /\ k \in DOMAIN servers =>
       lastHb[k].lastRefresh - servers[k].lastRefresh <= max_idle_time
  /\ \A i \in 1..Len(db) :
       RowKey(db[i]) = k =>
         lastHb[k].lastRefresh - db[i].last_refresh <= max_idle_time

\* C14: no step removes the entry of an identity that keeps receiving
\* accepted heartbeats at intervals not longer than max_idle_time (here with
\* the connection to the database working)
C14_RefreshedStays ==
  [][\A k \in DOMAIN lastHb :
       (Present(k) /\ RefreshedInTime(k) /\ ~dbLost) => PresentAfter(k)]_vars

\* a query completes in this step and its callback calls parseDbErrors
DbCall == dbQueue # << >> /\ dbQueue' # dbQueue /\ posts' = posts /\ sweeps' = sweeps

\* C15 as stated: 'Lost connection' is logged exactly when an operation
\* fails after one that succeeded, 'Regained connexion' exactly when one
\* succeeds after one that failed, whatever config.verbose is
C15_LoggedOncePerTransition ==
  [][DbCall =>
       /\ (dbLog' = "lost") <=> (~dbLost /\ dbLost')
       /\ (dbLog' = "regained") <=> (dbLost /\ ~dbLost')]_vars

\* C15 amended: the recovery is logged once per transition from failing to
\* working; the loss is logged once per transition from working to failing
\* when verbose is off, and at every failed operation when verbose is on
C15_LoggedPerTransitionUnlessVerbose ==
  [][DbCall =>
       /\ (dbLog' = "lost") <=> (dbLost' /\ (~dbLost \/ config.verbose))
       /\ (dbLog' = "regained") <=> (dbLost /\ ~dbLost')]_vars

\* with verbose off a second operation in a row has failed without a log
C15_Witness == ~config.verbose /\ dbLost /\ dbLog = "none"

\* the rows of identity k after the step
RowsAfter(k) == {i \in 1..Len(db') : RowKey(db'[i]) = k}

\* part_000 accepts in this step a heartbeat with players '' for an
\* identity that has an entry
EmptyHeartbeat0 ==
  /\ program = "part_000" /\ posts' = posts + 1
  /\ res'.status = 200 /\ res'.body.players = << >>
  /\ res'.key \in DOMAIN servers

\* app.js carries out in this step the UPDATE of a heartbeat with players ''
EmptyHeartbeat1 ==
  /\ HeartbeatWritten /\ Head(dbQueue).kind = "update"
  /\ Head(dbQueue).server.players = cleanPlayers(<< >>)

\* C16: a heartbeat with players '' for a registered identity leaves one
\* entry of that identity, whose players has length zero
C16_EmptyPlayers ==
  [][/\ EmptyHeartbeat0 => Len(servers'[res'.key].players) = 0
     /\ EmptyHeartbeat1 =>
          LET k == serverKey(Head(dbQueue).server.ip, Head(dbQueue).server.port)
          IN /\ Cardinality(RowsAfter(k)) = 1
             /\ \A i \in RowsAfter(k) : Len(db'[i].players) = 0]_vars

\* a and b have the same length and the same elements
SameSequence(a, b) == Len(a) = Len(b) /\ \A n \in 1..Len(a) : a[n] = b[n]

\* the entries of a listing payload: its tokens between "[" and "]"
Entries(body) == {j \in 1..Len(body) : 1 < j /\ j < Len(body)}

\* C17: a listing returned by GET / after a refresh holds one entry per
\* registered identity, and the players of that entry is the sequence of
\* names the heartbeat was parsed to ("a, b" gives the two names a and b)
C17_PlayersRoundTrip ==
  \A i \in 1..Len(gets) :
    (gets[i].state = "done" /\ gets[i].status = 200) =>
      \A j \in Entries(gets[i].body) :
        LET k == RowKey(gets[i].body[j])
        IN /\ k \in DOMAIN lastHb
           /\ \A j2 \in Entries(gets[i].body) : RowKey(gets[i].body[j2]) = k => j2 = j
           /\ SameSequence(gets[i].body[j].players, lastHb[k].players)

\* body is the text of a JSON array: "[", its entries, "]"
IsJsonArray(body) ==
  Len(body) >= 2 /\ body[1] = "[" /\ body[Len(body)] = "]"

\* C18: every GET / is answered, with status 200 and a body that is a JSON
\* array, those served before the first refresh has completed included
C18_AlwaysJsonArray ==
  \A i \in 1..Len(gets) :
    /\ gets[i].state # "failed"
    /\ gets[i].state = "done" =>
         gets[i].status = 200 /\ IsJsonArray(gets[i].body)

\* no refresh has completed since the server started: self.cache and
\* self.cacheAge are as setupVariables leaves them in a memory-backed
\* server, and servers.lst has not been written
NoRefreshYet == cache = << >> /\ cacheAge = 0 /\ file.mtime = 0 /\ writers = << >>

\* whether a memory-backed server that has seen the same requests, ticks
\* and refresh completions triggers a refresh on a GET / handled now,
\* while NoRefreshYet holds
MemoryTriggers == timestamp - cacheAge > expiration

\* a GET / is handled in this step
GetHandled == Len(gets') = Len(gets) + 1

\* C19: the file-backed cache triggers a refresh on exactly the requests on
\* which the memory-backed cache does, and answers every read as the
\* memory-backed cache does (which answers every read)
C19_FileAsMemory ==
  /\ [](\A i \in 1..Len(gets) : gets[i].state # "failed")
  /\ [][(GetHandled /\ NoRefreshYet) =>
          gets'[Len(gets')].trig = MemoryTriggers]_vars

\* part_000 accepts a heartbeat of identity k in this step
Accepted0(k) ==
  /\ program = "part_000" /\ posts' = posts + 1
  /\ res'.status = 200 /\ res'.key = k

\* app.js carries out the INSERT or UPDATE of an accepted heartbeat of
\* identity k in this step
Written1(k) ==
  /\ HeartbeatWritten
  /\ serverKey(Head(dbQueue).server.ip, Head(dbQueue).server.port) = k

\* C20: an entry is created or changed only by an accepted heartbeat of its
\* own identity: a sweep tick leaves the entries it keeps as they are, a
\* heartbeat leaves the entries of every other identity as they are, and a
\* refused POST / and a GET / change no entry
C20_OnlyOwnHeartbeat ==
  [][/\ \A k \in DOMAIN servers' :
          (k \notin DOMAIN servers \/ servers'[k] # servers[k]) => Accepted0(k)
     /\ \A j \in 1..Len(db') :
          \/ \E i \in 1..Len(db) : db[i] = db'[j]
          \/ /\ Written1(RowKey(db'[j]))
             /\ \A i \in 1..Len(db) :
                  db[i].id = db'[j].id => RowKey(db[i]) = RowKey(db'[j])]_vars

\* in part_000 a sweep has removed the entry of one identity and kept the
\* entry of another, accepted before that sweep, as its heartbeat wrote it,
\* and a GET / has been answered since
C20_Witness ==
  /\ program = "part_000" /\ lastSweep.removed > 0
  /\ res.op = "get"
  /\ \E k \in DOMAIN servers :
       /\ servers[k] = lastHb[k]
       /\ servers[k].lastRefresh < lastSweep.at

\* C21: with the file-backed cache, a GET / handled while servers.lst does
\* not exist finds the cache expired and triggers a refresh
C21_MissingFileRefreshes ==
  [][(GetHandled /\ config.caching_type = "file" /\ ~file.exists) =>
       /\ gets'[Len(gets')].trig
       /\ \E i \in 1..Len(dbQueue') : dbQueue'[i].kind = "list"]_vars

\* the keys of self.servers idle for strictly longer than max_idle_time at
\* time t
IdleEntries(t) == {k \in DOMAIN servers : t - servers[k].lastRefresh > max_idle_time}

\* the ids of the rows idle for strictly longer than max_idle_time at time
\* t: the test of part_000 applied to the rows of online_servers
IdleRows(t) ==
  {db[i].id : i \in {j \in 1..Len(db) : t - db[j].last_refresh > max_idle_time}}

\* the ids of the rows of a table
Ids(rows) == {rows[i].id : i \in 1..Len(rows)}

C23_FreshReadsNoQuery ==
  [][/\ (GetHandled /\ getCacheAge <= expiration) =>
          /\ dbQueue' = dbQueue
          /\ cache' = cache /\ cacheAge' = cacheAge
          /\ file' = file /\ writers' = writers
     /\ Cardinality(ListQueries') > Cardinality(ListQueries) =>
          (GetHandled /\ getCacheAge > expiration)]_vars

\* a GET / has been served from a cache that a refresh had filled, without
\* a query
C23_Witness ==
  \E i \in 1..Len(gets) :
    /\ ~gets[i].trig /\ gets[i].state = "done" /\ gets[i].status = 200
    /\ IsJsonArray(gets[i].body)

\* the body of a GET / response lists an entry of identity k
Listed(body, k) == body # Undefined /\ k \in DOMAIN body

\* C24: in part_001 a GET / lists every registration that has been written
\* to online_servers, and once a sweep has run no row idle for longer than
\* max_idle_time at that sweep is left in online_servers
C24_OneStore ==
  [][(program = "part_001") =>
       /\ (res'.op = "get" /\ res' # res) =>
            \A i \in 1..Len(db) : Listed(res'.body, RowKey(db[i]))
       /\ (sweeps' = sweeps + 1) =>
            \A i \in 1..Len(db') :
              ~(lastSweep'.at - db'[i].last_refresh > max_idle_time)]_vars

\* the call of parseDbErrors in this step was made with an error; defined
\* for the calls whose outcome shows: a SELECT whose callback returned
\* without queueing the write, a DELETE that reported an error, an INSERT
\* that left the table as it was
CallFailed ==
  LET q == Head(dbQueue)
  IN CASE q.kind = "select" -> Len(dbQueue') < Len(dbQueue)
       [] q.kind = "delete" -> lastSweep'.err
       [] q.kind = "insert" -> db' = db

\* C25: whatever config.verbose and the flag before the call are,
\* parseDbErrors(err) returns true exactly when err is set and leaves
\* self.dbLost true exactly then; after the callback of a query self.dbLost
\* tells whether that query failed
C25_DbLostIsLastOutcome ==
  [][/\ \A err \in BOOLEAN :
          /\ DbLostAfter(err) = err
          /\ parseDbErrors(err) = err
     /\ (DbCall /\ Head(dbQueue).kind \in {"select", "delete", "insert"}) =>
          dbLost' = CallFailed]_vars

\* with verbose off the DELETE, the last query carried out, has failed
\* while the flag was already set
C25_Witness ==
  /\ program = "app.js" /\ ~config.verbose /\ dbQueue = << >>
  /\ lastSweep.err /\ dbLost /\ dbLog = "none"

====
